---- MODULE Spec2Model ----
(***************************************************************************)
(* real2sim/main_inference.py: the evaluation sweep (__main__) and the     *)
(* episode rollout (main).                                                 *)
(*                                                                         *)
(* Numbers.  A command-line float is an integer count of hundredths (1.0   *)
(* is 100, 0.35 is 35), so that int() has something to truncate.  A grid   *)
(* value is an exact rational [n |-> numerator, d |-> denominator > 0] in  *)
(* lowest terms; floating-point rounding of the interior points of a range *)
(* is not modelled.                                                        *)
(*                                                                         *)
(* Values of different kinds are never compared: None is a record, a dict  *)
(* is a record around its items, and a call that may raise yields a record *)
(* saying what it raised or what it returned.                              *)
(***************************************************************************)
EXTENDS Integers, Sequences, FiniteSets, TLC

VARIABLES
    args,                      \* the parsed command line (argparse namespace)
    pc,                        \* position of the script / of main()
    robot_init_xs, robot_init_ys, obj_init_xs, obj_init_ys, robot_init_quats,
    model,                     \* the policy instance, shared by all episodes
    idx,                       \* positions of the five nested for loops
    env, task_description,     \* what build_maniskill2_env returned to main()
    image, images, predicted_actions,
    predicted_terminated, done, truncated, info,
    additional_episode_stats, timestep, success,
    files,                     \* paths written so far (videos and action images)
    error,                     \* what ended the run abnormally, or "none"
    visited,                   \* history: the initial conditions main() was called with
    ep_log,                    \* history: reset / first-step events of the current episode
    early_success,             \* history: info.success seen at a non-terminating step
    range_in, range_out,       \* input and result of a lone parse_range_tuple call
    instances,                 \* history: how many policy objects were constructed
    written                    \* history: what each finished rollout named its video from

vars == <<args, pc, robot_init_xs, robot_init_ys, obj_init_xs, obj_init_ys,
          robot_init_quats, model, idx, env, task_description, image, images, predicted_actions,
          predicted_terminated, done, truncated, info, additional_episode_stats,
          timestep, success, files, error, visited, ep_log, early_success,
          range_in, range_out, instances, written>>

\* ------------------------------------------------------------------ bounds
MaxCount == 2          \* largest num of a range triple in a sweep
MaxVaried == 2         \* how many range triples of a sweep may have num # 1
MaxEpisodes == 4       \* largest number of grid points of a sweep
MaxSteps == 2          \* largest --max-episode-steps
MaxNum == 4            \* largest num given to a lone parse_range_tuple call
MaxVal == 2            \* largest |min|, |max| (in hundredths) of a lone call

\* ------------------------------------------------------------- arithmetic
Abs(x) == IF x < 0 THEN -x ELSE x

RECURSIVE Gcd(_, _)
Gcd(a, b) == IF b = 0 THEN a ELSE Gcd(b, a % b)

\* float -> int, truncating toward zero: int(t[2])
int(f) == IF f >= 0 THEN f \div 100 ELSE -((-f) \div 100)

\* The value n/d, in lowest terms: equal numbers are equal values.
Rat(n, d) ==
    LET g == Gcd(Abs(n), d)
    IN  [n |-> n \div g, d |-> d \div g]
RatLt(a, b) == a.n * b.d < b.n * a.d
\* a command-line float (hundredths) as a value
FloatRat(f) == Rat(f, 100)

\* f'{x}' of a float: numerator and denominator as text tokens; distinct
\* values print differently.
FloatStr(v) == <<ToString(v.n), "/", ToString(v.d)>>

\* The outcome of a call: the exception it raised, or the value it returned.
Raise(e) == [raised |-> e]
Return(v) == [raised |-> "none", value |-> v]
Raised(r) == r.raised # "none"

ValueError == "ValueError"
TypeError == "TypeError"

\* endpoint left out: the step is (stop - start) / num
linspace_no_endpoint(start, stop, num) ==
    IF num < 0 THEN Raise(ValueError)
    ELSE IF num = 0 THEN Return(<<>>)
    ELSE Return([i \in 1..num |->
            Rat(start * num + (i - 1) * (stop - start), 100 * num)])

\* a single sample taken at stop
linspace_single_stop(start, stop, num) ==
    IF num < 0 THEN Raise(ValueError)
    ELSE IF num = 0 THEN Return(<<>>)
    ELSE IF num = 1 THEN Return(<<FloatRat(stop)>>)
    ELSE Return([i \in 1..num |->
            IF i = num THEN FloatRat(stop)
            ELSE Rat(start * (num - 1) + (i - 1) * (stop - start), 100 * (num - 1))])

\* np.linspace(start, stop, num): num evenly spaced samples over [start, stop],
\* endpoint included; a single sample is start; no sample for num = 0; a
\* negative num raises ValueError.
linspace(start, stop, num) ==
    IF num < 0 THEN Raise(ValueError)
    ELSE IF num = 0 THEN Return(<<>>)
    ELSE IF num = 1 THEN Return(<<FloatRat(start)>>)
    ELSE Return([i \in 1..num |->
            IF i = num THEN FloatRat(stop)
            ELSE Rat(start * (num - 1) + (i - 1) * (stop - start), 100 * (num - 1))])

parse_range_tuple(t) == linspace(t[1], t[2], int(t[3]))


\* ------------------------------------------------------------ command line
\* None, and a dict given on the command line (insertion order kept)
None == [none |-> TRUE]
Dict(items) == [items |-> items]

PolicyChoices == {"rt1", "octo-base", "octo-small"}       \* choices=[...]

\* An environment family with a registered statistics rule, and one without.
EnvNames == {"MoveNearGoogleInScene-v0", "GraspSingleCokeCanInScene-v0"}

\* --additional-env-build-kwargs: absent (None), or a dict in insertion order
KwargsChoices == {None, Dict(<<<<"urdf_version", "recolor">>>>)}

\* The defaults of the parser (lines 134-154), with the two required options given
DefaultArgs ==
    [policy_model |-> "rt1",
     ckpt_path |-> <<"checkpoints", "rt1_ckpt", "">>,     \* 'checkpoints/rt1_ckpt/'
     env_name |-> "MoveNearGoogleInScene-v0",
     scene_name |-> "google_pick_coke_can_1_v4",
     robot |-> "google_robot_static",
     max_episode_steps |-> 80,
     rgb_overlay_path |-> None,
     robot_init_x_range |-> <<35, 35, 100>>,
     robot_init_y_range |-> <<20, 20, 100>>,
     robot_init_rot_quat_center |-> <<1, 0, 0, 0>>,
     robot_init_rot_rpy_range |-> <<0, 0, 100, 0, 0, 100, 0, 0, 100>>,
     obj_init_x_range |-> <<-35, -12, 500>>,
     obj_init_y_range |-> <<-2, 42, 500>>,
     additional_env_build_kwargs |-> None]

BaseTriple == <<0, 0, 100>>                               \* [0.0, 0.0, 1]

\* The command line the explored ones vary: one grid point, one step, one kwarg
BaseArgs ==
    [DefaultArgs EXCEPT
        !.max_episode_steps = 1,
        !.robot_init_x_range = BaseTriple,
        !.robot_init_y_range = BaseTriple,
        !.obj_init_x_range = BaseTriple,
        !.obj_init_y_range = BaseTriple,
        !.additional_env_build_kwargs = Dict(<<<<"urdf_version", "recolor">>>>)]

\* The seven range triples of a command line, outermost loop first.
Axes == 1..7
AxisTriple(a, k) ==
    CASE k = 1 -> a.robot_init_x_range
      [] k = 2 -> a.robot_init_y_range
      [] k = 3 -> SubSeq(a.robot_init_rot_rpy_range, 1, 3)
      [] k = 4 -> SubSeq(a.robot_init_rot_rpy_range, 4, 6)
      [] k = 5 -> SubSeq(a.robot_init_rot_rpy_range, 7, 9)
      [] k = 6 -> a.obj_init_x_range
      [] k = 7 -> a.obj_init_y_range

WithTriples(a, t) ==
    [a EXCEPT !.robot_init_x_range = t[1],
              !.robot_init_y_range = t[2],
              !.robot_init_rot_rpy_range = t[3] \o t[4] \o t[5],
              !.obj_init_x_range = t[6],
              !.obj_init_y_range = t[7]]

RECURSIVE Product(_, _)
Product(f, n) == IF n = 0 THEN 1 ELSE f[n] * Product(f, n - 1)

\* Range triples tried in a sweep besides the base one: from 0.0 to 1.0, with
\* num -1.0, -0.5, 0 or 2 .. MaxCount.
SweepTriples ==
    {<<0, 100, c>> : c \in {-100, -50, 0}} \cup {<<0, 100, 100 * c>> : c \in 2..MaxCount}

\* The number of grid points of a vector of seven triples: what the lengths of
\* the expanded ranges multiply to.
GridSize(t) == Product([k \in Axes |-> IF int(t[k][3]) > 0 THEN int(t[k][3]) ELSE 0], 7)

SweepGrids ==
    LET varied == {S \in SUBSET Axes : Cardinality(S) <= MaxVaried}
        grids == UNION {{[k \in Axes |-> IF k \in S THEN f[k] ELSE BaseTriple] :
                            f \in [S -> SweepTriples]} : S \in varied}
    IN  {t \in grids : GridSize(t) <= MaxEpisodes}

\* Two episodes that differ in the object's y alone.
TwoEpisodes == [k \in Axes |-> IF k = 7 THEN <<0, 100, 200>> ELSE BaseTriple]

\* Command lines explored:
\*  - every bounded grid, for both environment families, one step per episode;
\*  - two episodes of up to MaxSteps steps, for both environment families;
\*  - the base grid with every policy family (one of them not among the
\*    choices), with and without extra build kwargs.
EpisodeArgs ==
    {[WithTriples(BaseArgs, TwoEpisodes) EXCEPT !.env_name = e,
                                                !.max_episode_steps = m] :
        e \in EnvNames, m \in 1..MaxSteps}

\* Two episodes that differ in the robot's yaw alone.
TwoYaws == [k \in Axes |-> IF k = 5 THEN <<0, 100, 200>> ELSE BaseTriple]

YawArgs ==
    {[WithTriples(BaseArgs, TwoYaws) EXCEPT !.max_episode_steps = m] : m \in 2..MaxSteps}

SweepArgs ==
    {[WithTriples(BaseArgs, t) EXCEPT !.env_name = e] :
        t \in SweepGrids, e \in EnvNames}
    \cup EpisodeArgs
    \cup YawArgs
    \cup {[BaseArgs EXCEPT !.policy_model = p, !.additional_env_build_kwargs = k] :
        p \in PolicyChoices \cup {"rt2"}, k \in KwargsChoices}

\* ------------------------------------------------------- initial condition
\* (Pose(q=euler2quat(r, p, y)) * Pose(q=center)).q, kept symbolic
Quat(r, p, y, center) == [r |-> r, p |-> p, y |-> y, center |-> center]

RECURSIVE Flatten(_)
Flatten(ss) == IF Len(ss) = 0 THEN <<>> ELSE Head(ss) \o Flatten(Tail(ss))

\* yaw outermost, roll innermost
Quats_yaw_outer(rs, ps, ys, center) ==
    Flatten([k \in 1..Len(ys) |->
        Flatten([j \in 1..Len(ps) |->
            [i \in 1..Len(rs) |-> Quat(rs[i], ps[j], ys[k], center)]])])

\* robot_init_quats: three nested loops appending to one list (lines 180-184)
Quats(rs, ps, ys, center) ==
    Flatten([i \in 1..Len(rs) |->
        Flatten([j \in 1..Len(ps) |->
            [k \in 1..Len(ys) |-> Quat(rs[i], ps[j], ys[k], center)]])])

NoIdx == <<>>
Lens == <<Len(robot_init_xs), Len(robot_init_ys), Len(robot_init_quats),
          Len(obj_init_xs), Len(obj_init_ys)>>

\* The five nested for loops (lines 196-200): the first index tuple, and the
\* tuple after i; NoIdx when the loops are exhausted.
\* the innermost loop stops one short
NextIdx_short(i) ==
    IF i[5] < Lens[5] - 1 THEN [i EXCEPT ![5] = @ + 1]
    ELSE IF i[4] < Lens[4] THEN [i EXCEPT ![4] = @ + 1, ![5] = 1]
    ELSE IF i[3] < Lens[3] THEN [i EXCEPT ![3] = @ + 1, ![4] = 1, ![5] = 1]
    ELSE IF i[2] < Lens[2] THEN [i EXCEPT ![2] = @ + 1, ![3] = 1, ![4] = 1, ![5] = 1]
    ELSE IF i[1] < Lens[1] THEN [i EXCEPT ![1] = @ + 1, ![2] = 1, ![3] = 1, ![4] = 1, ![5] = 1]
    ELSE NoIdx

FirstIdx == IF \A k \in 1..5 : Lens[k] >= 1 THEN <<1, 1, 1, 1, 1>> ELSE NoIdx
NextIdx(i) ==
    IF i[5] < Lens[5] THEN [i EXCEPT ![5] = @ + 1]
    ELSE IF i[4] < Lens[4] THEN [i EXCEPT ![4] = @ + 1, ![5] = 1]
    ELSE IF i[3] < Lens[3] THEN [i EXCEPT ![3] = @ + 1, ![4] = 1, ![5] = 1]
    ELSE IF i[2] < Lens[2] THEN [i EXCEPT ![2] = @ + 1, ![3] = 1, ![4] = 1, ![5] = 1]
    ELSE IF i[1] < Lens[1] THEN [i EXCEPT ![1] = @ + 1, ![2] = 1, ![3] = 1, ![4] = 1, ![5] = 1]
    ELSE NoIdx

\* The arguments of the call main(...) at loop position i (lines 201-203)
InitialCondition(i) ==
    [robot_init_x |-> robot_init_xs[i[1]],
     robot_init_y |-> robot_init_ys[i[2]],
     robot_init_quat |-> robot_init_quats[i[3]],
     obj_init_x |-> obj_init_xs[i[4]],
     obj_init_y |-> obj_init_ys[i[5]]]

cur == InitialCondition(idx)
episode == Len(visited)


\* ------------------------------------------------------------ collaborators
\* get_robot_control_mode(robot): opaque, a function of the robot alone
get_robot_control_mode(robot) == <<"control_mode", robot>>

\* build_maniskill2_env(...): the environment and its task description.  A
\* missing mapping after ** raises TypeError before the builder is entered.
build_maniskill2_env(env_name, max_episode_steps, kwargs) ==
    IF kwargs = None THEN Raise(TypeError)
    ELSE Return([env |-> [name |-> env_name, max_episode_steps |-> max_episode_steps,
                          kwargs |-> kwargs.items, elapsed_steps |-> -1,
                          options |-> None, action |-> <<>>],
                 task_description |-> [task_of |-> env_name]])

\* env.reset(options): step counter to zero; the first observation
EnvReset(e, options) == [e EXCEPT !.elapsed_steps = 0, !.options = options]
\* the overhead camera image of the observation the environment last returned
Obs(e) == [ep |-> episode, t |-> e.elapsed_steps]

\* env.agent.get_gripper_closedness(): a reading of the environment as it is
get_gripper_closedness(e) == [closedness_at |-> e.elapsed_steps]

\* env.step(action): one more elapsed step, under the action it was given;
\* truncated on reaching the ceiling
EnvStep(e, a) == [e EXCEPT !.elapsed_steps = @ + 1, !.action = a]
Truncated(e) == e.elapsed_steps >= e.max_episode_steps

Infos == [success : BOOLEAN, moved_correct_obj : BOOLEAN]
\* the info records an environment family can return
InfosOf(env_name) ==
    IF env_name = "MoveNearGoogleInScene-v0" THEN Infos
    ELSE {i \in Infos : ~i.moved_correct_obj}

\* RT1Inference(...) / OctoInference(...): a freshly loaded policy, an object
\* of its own (id: the how-manieth policy object of the run it is)
LoadModel(policy_model, ckpt_path) ==
    IF policy_model = "rt1"
    THEN [family |-> "rt1", from |-> ckpt_path, task |-> None, observed |-> <<>>,
          closedness |-> <<>>, id |-> instances + 1]
    ELSE [family |-> "octo", from |-> <<policy_model>>, task |-> None,
          observed |-> <<>>, closedness |-> <<>>, id |-> instances + 1]
\* model.reset(task_description): clears the episode-local state
ModelReset(m, description) ==
    [m EXCEPT !.task = description, !.observed = <<>>, !.closedness = <<>>]
\* model.step(image, closedness): the policy remembers what it was given
ModelStep(m, img, closedness) ==
    [m EXCEPT !.observed = Append(@, img), !.closedness = Append(@, closedness)]
\* the structured action model.step returns at the n-th step since the reset:
\* three translations, three rotations, one gripper command, and the
\* terminate component the policy chose
Action(n, terminate_episode) ==
    [world_vector |-> <<[c |-> "x", n |-> n], [c |-> "y", n |-> n], [c |-> "z", n |-> n]>>,
     rot_axangle |-> <<[c |-> "rx", n |-> n], [c |-> "ry", n |-> n], [c |-> "rz", n |-> n]>>,
     gripper |-> <<[c |-> "gripper", n |-> n]>>,
     terminate_episode |-> <<terminate_episode>>]

\* additional_episode_stats: a dict in insertion order, as <<key, value>> pairs
initialize_additional_episode_stats(env_name) ==
    IF env_name = "MoveNearGoogleInScene-v0" THEN <<<<"moved_correct_obj", FALSE>>>>
    ELSE <<>>
update_additional_episode_stats(env_name, stats, i) ==
    IF env_name = "MoveNearGoogleInScene-v0"
    THEN [k \in 1..Len(stats) |-> <<stats[k][1], stats[k][2] \/ i[stats[k][1]]>>]
    ELSE stats
obtain_truncation_step_success(env_name, stats, i) ==
    IF env_name = "MoveNearGoogleInScene-v0"
    THEN stats[1][2] /\ i.success
    ELSE FALSE


\* ------------------------------------------------------------ artifact path
\* A string is a sequence of text tokens; a path is a sequence of components.
RECURSIVE KwargsSuffix(_)
KwargsSuffix(kw) ==
    IF Len(kw) = 0 THEN <<>>
    ELSE <<"_", Head(kw)[1], "_", Head(kw)[2]>> \o KwargsSuffix(Tail(kw))

\* lines 100-102
env_save_name(env_name, kwargs) == <<env_name>> \o KwargsSuffix(kwargs.items)

\* lines 103-104: drop one trailing '/', keep what follows the last '/'
ckpt_path_basename(ckpt_path) ==
    LET stripped == IF ckpt_path[Len(ckpt_path)] # "" THEN ckpt_path
                    ELSE SubSeq(ckpt_path, 1, Len(ckpt_path) - 1)
    IN  stripped[Len(stripped)]

\* lines 106-107: f'_{k}_{v}' of a boolean statistic
RECURSIVE StatsSuffix(_)
StatsSuffix(st) ==
    IF Len(st) = 0 THEN <<>>
    ELSE <<"_", Head(st)[1], "_", IF Head(st)[2] THEN "True" ELSE "False">>
            \o StatsSuffix(Tail(st))

\* lines 105-108
video_name(outcome, obj_init_x, obj_init_y, stats) ==
    <<outcome, "_obj_">> \o FloatStr(obj_init_x) \o <<"_">> \o FloatStr(obj_init_y)
        \o StatsSuffix(stats) \o <<".mp4">>

\* lines 109-112
rgb_overlay_path_str(rgb_overlay_path) ==
    IF rgb_overlay_path # None THEN rgb_overlay_path.stem ELSE "None"

\* lines 113-117
video_path(a, ic, outcome, stats, tmp_exp) ==
    <<<<IF ~tmp_exp THEN "results" ELSE "results_tmp">>,
      <<ckpt_path_basename(a.ckpt_path)>>,
      <<a.scene_name>>,
      get_robot_control_mode(a.robot),
      env_save_name(a.env_name, a.additional_env_build_kwargs),
      <<"rob_">> \o FloatStr(ic.robot_init_x) \o <<"_">> \o FloatStr(ic.robot_init_y)
          \o <<"_rgb_overlay_", rgb_overlay_path_str(a.rgb_overlay_path)>>,
      video_name(outcome, ic.obj_init_x, ic.obj_init_y, stats)>>

\* str.replace('.mp4', '.png'), over every component of the path
ReplaceExt(vp) ==
    [c \in 1..Len(vp) |->
        [k \in 1..Len(vp[c]) |-> IF vp[c][k] = ".mp4" THEN ".png" ELSE vp[c][k]]]

\* lines 121-124: the sibling .png under actions/
action_path(vp) ==
    LET png == ReplaceExt(vp)
    IN  SubSeq(png, 1, Len(png) - 1) \o <<<<"actions">>, png[Len(png)]>>

\* A file written at path p by episode k replaces whatever was at p.
WriteFile(fs, p, k) == {f \in fs : f.path # p} \cup {[path |-> p, by |-> k]}


\* --------------------------------------------------------------- the script
\* main()'s locals do not exist outside a call of main()
NoLocals ==
    /\ env' = None
    /\ task_description' = None
    /\ image' = None
    /\ images' = <<>>
    /\ predicted_actions' = <<>>
    /\ predicted_terminated' = FALSE
    /\ done' = FALSE
    /\ truncated' = FALSE
    /\ info' = None
    /\ additional_episode_stats' = <<>>
    /\ timestep' = 0
    /\ success' = "undefined"
    /\ ep_log' = <<>>
    /\ early_success' = FALSE

Init ==
    /\ args \in SweepArgs
    /\ pc = "start"
    /\ robot_init_xs = <<>> /\ robot_init_ys = <<>>
    /\ obj_init_xs = <<>> /\ obj_init_ys = <<>>
    /\ robot_init_quats = <<>>
    /\ model = None
    /\ idx = NoIdx
    /\ env = None /\ task_description = None /\ image = None /\ images = <<>> /\ predicted_actions = <<>>
    /\ predicted_terminated = FALSE /\ done = FALSE /\ truncated = FALSE
    /\ info = None /\ additional_episode_stats = <<>>
    /\ timestep = 0 /\ success = "undefined"
    /\ files = {}
    /\ error = "none"
    /\ visited = <<>>
    /\ ep_log = <<>>
    /\ early_success = FALSE
    /\ range_in = <<>> /\ range_out = None
    /\ instances = 0
    /\ written = <<>>

\* the exception is noted and the loops go on
Abort_continue(e) ==
    /\ pc' = "sweep"
    /\ error' = e

\* An exception nothing catches: the interpreter exits.
Abort(e) ==
    /\ pc' = "error"
    /\ error' = e

\* lines 162-185: parse_args() rejects a policy outside the choices; then the
\* seven ranges are expanded and the orientations composed.
ParseArgs ==
    /\ pc = "start"
    /\ LET xs == parse_range_tuple(args.robot_init_x_range)
           ys == parse_range_tuple(args.robot_init_y_range)
           oxs == parse_range_tuple(args.obj_init_x_range)
           oys == parse_range_tuple(args.obj_init_y_range)
           rs == parse_range_tuple(SubSeq(args.robot_init_rot_rpy_range, 1, 3))
           ps == parse_range_tuple(SubSeq(args.robot_init_rot_rpy_range, 4, 6))
           yws == parse_range_tuple(SubSeq(args.robot_init_rot_rpy_range, 7, 9))
           \* the pitch and yaw ranges are expanded inside the loops over roll
           \* and pitch: not at all when the loop around them has nothing to do
           raised == \/ \E r \in {xs, ys, oxs, oys, rs} : Raised(r)
                     \/ Len(rs.value) > 0 /\ Raised(ps)
                     \/ Len(rs.value) > 0 /\ Len(ps.value) > 0 /\ Raised(yws)
       IN  IF args.policy_model \notin PolicyChoices
           THEN /\ Abort("SystemExit")
                /\ UNCHANGED <<robot_init_xs, robot_init_ys, obj_init_xs,
                               obj_init_ys, robot_init_quats>>
           ELSE IF raised
           THEN /\ Abort(ValueError)
                /\ UNCHANGED <<robot_init_xs, robot_init_ys, obj_init_xs,
                               obj_init_ys, robot_init_quats>>
           ELSE /\ robot_init_xs' = xs.value
                /\ robot_init_ys' = ys.value
                /\ obj_init_xs' = oxs.value
                /\ obj_init_ys' = oys.value
                /\ robot_init_quats' =
                       IF Len(rs.value) = 0 \/ Len(ps.value) = 0 THEN <<>>
                       ELSE Quats(rs.value, ps.value, yws.value,
                                  args.robot_init_rot_quat_center)
                /\ pc' = "load_policy"
                /\ error' = error
    /\ UNCHANGED <<args, model, idx, env, task_description, image, images, predicted_actions,
                   predicted_terminated, done, truncated, info,
                   additional_episode_stats, timestep, success, files, visited,
                   ep_log, early_success, range_in, range_out, instances, written>>


\* lines 188-193: one policy instance for the whole sweep
LoadPolicy ==
    /\ pc = "load_policy"
    /\ IF args.policy_model = "rt1" \/ args.policy_model \in {"octo-base", "octo-small"}
       THEN /\ model' = LoadModel(args.policy_model, args.ckpt_path)
            /\ instances' = instances + 1
            /\ pc' = "sweep"
            /\ error' = error
       ELSE /\ Abort("NotImplementedError")
            /\ UNCHANGED <<model, instances>>
    /\ UNCHANGED <<args, robot_init_xs, robot_init_ys, obj_init_xs, obj_init_ys,
                   robot_init_quats, idx, env, task_description, image, images, predicted_actions,
                   predicted_terminated, done, truncated, info,
                   additional_episode_stats, timestep, success, files, visited,
                   ep_log, early_success, range_in, range_out, written>>

\* a policy is loaded anew for every call of main()
SweepNext_reload ==
    /\ pc = "sweep"
    /\ LET nxt == IF idx = NoIdx THEN FirstIdx ELSE NextIdx(idx)
       IN  IF nxt = NoIdx
           THEN /\ pc' = "done"
                /\ UNCHANGED <<idx, visited, model, instances>>
           ELSE /\ idx' = nxt
                /\ visited' = Append(visited, InitialCondition(nxt))
                /\ model' = LoadModel(args.policy_model, args.ckpt_path)
                /\ instances' = instances + 1
                /\ pc' = "build_env"
    /\ UNCHANGED <<args, robot_init_xs, robot_init_ys, obj_init_xs, obj_init_ys,
                   robot_init_quats, env, task_description, image, images, predicted_actions,
                   predicted_terminated, done, truncated, info,
                   additional_episode_stats, timestep, success, files, error,
                   ep_log, early_success, range_in, range_out, written>>

\* lines 196-201: the loops move to their next position and call main(), or end
SweepNext ==
    /\ pc = "sweep"
    /\ LET nxt == IF idx = NoIdx THEN FirstIdx ELSE NextIdx(idx)
       IN  IF nxt = NoIdx
           THEN /\ pc' = "done"
                /\ UNCHANGED <<idx, visited>>
           ELSE /\ idx' = nxt
                /\ visited' = Append(visited, InitialCondition(nxt))
                /\ pc' = "build_env"
    /\ UNCHANGED <<args, robot_init_xs, robot_init_ys, obj_init_xs, obj_init_ys,
                   robot_init_quats, model, env, task_description, image, images, predicted_actions,
                   predicted_terminated, done, truncated, info,
                   additional_episode_stats, timestep, success, files, error,
                   ep_log, early_success, range_in, range_out, instances, written>>

\* ------------------------------------------------------------------- main()
env_reset_options ==
    [obj_init_options |-> [init_xy |-> <<cur.obj_init_x, cur.obj_init_y>>],
     robot_init_options |-> [init_xy |-> <<cur.robot_init_x, cur.robot_init_y>>,
                             init_rot_quat |-> cur.robot_init_quat]]

\* lines 29-54
BuildEnv ==
    /\ pc = "build_env"
    /\ LET built == build_maniskill2_env(args.env_name, args.max_episode_steps,
                                         args.additional_env_build_kwargs)
       IN  IF Raised(built)
           THEN /\ Abort(built.raised)
                /\ UNCHANGED <<env, task_description>>
           ELSE /\ env' = built.value.env
                /\ task_description' = built.value.task_description
                /\ pc' = "env_reset"
                /\ error' = error
    /\ UNCHANGED <<args, robot_init_xs, robot_init_ys, obj_init_xs, obj_init_ys,
                   robot_init_quats, model, idx, image, images, predicted_actions,
                   predicted_terminated, done, truncated, info,
                   additional_episode_stats, timestep, success, files, visited,
                   ep_log, early_success, range_in, range_out, instances, written>>

\* the truncation flag starts set
ResetEnv_truncated ==
    /\ pc = "env_reset"
    /\ env' = EnvReset(env, env_reset_options)
    /\ image' = Obs(env')
    /\ images' = <<image'>>
    /\ predicted_actions' = <<>>
    /\ predicted_terminated' = FALSE /\ done' = FALSE /\ truncated' = TRUE
    /\ ep_log' = Append(ep_log, "env.reset")
    /\ pc' = "model_reset"
    /\ UNCHANGED <<args, robot_init_xs, robot_init_ys, obj_init_xs, obj_init_ys,
                   robot_init_quats, model, idx, task_description, info,
                   additional_episode_stats, timestep, success, files, error,
                   visited, early_success, range_in, range_out, instances, written>>

\* lines 57-61
ResetEnv ==
    /\ pc = "env_reset"
    /\ env' = EnvReset(env, env_reset_options)
    /\ image' = Obs(env')
    /\ images' = <<image'>>
    /\ predicted_actions' = <<>>
    /\ predicted_terminated' = FALSE /\ done' = FALSE /\ truncated' = FALSE
    /\ ep_log' = Append(ep_log, "env.reset")
    /\ pc' = "model_reset"
    /\ UNCHANGED <<args, robot_init_xs, robot_init_ys, obj_init_xs, obj_init_ys,
                   robot_init_quats, model, idx, task_description, info,
                   additional_episode_stats, timestep, success, files, error,
                   visited, early_success, range_in, range_out, instances, written>>

\* the policy is reset in the first episode only
ResetModel_first_only ==
    /\ pc = "model_reset"
    /\ IF episode = 1
       THEN /\ model' = ModelReset(model, task_description)
            /\ ep_log' = Append(ep_log, "model.reset")
       ELSE UNCHANGED <<model, ep_log>>
    /\ pc' = "init_stats"
    /\ UNCHANGED <<args, robot_init_xs, robot_init_ys, obj_init_xs, obj_init_ys,
                   robot_init_quats, idx, env, task_description, image, images,
                   predicted_actions, predicted_terminated, done, truncated, info,
                   additional_episode_stats, timestep, success, files, error,
                   visited, early_success, range_in, range_out, instances, written>>

\* line 63
ResetModel ==
    /\ pc = "model_reset"
    /\ model' = ModelReset(model, task_description)
    /\ ep_log' = Append(ep_log, "model.reset")
    /\ pc' = "init_stats"
    /\ UNCHANGED <<args, robot_init_xs, robot_init_ys, obj_init_xs, obj_init_ys,
                   robot_init_quats, idx, env, task_description, image, images, predicted_actions,
                   predicted_terminated, done, truncated, info,
                   additional_episode_stats, timestep, success, files, error,
                   visited, early_success, range_in, range_out, instances, written>>

\* the step counter starts at one
InitStats_from_one ==
    /\ pc = "init_stats"
    /\ additional_episode_stats' = initialize_additional_episode_stats(args.env_name)
    /\ timestep' = 1
    /\ success' = "failure"
    /\ pc' = "loop"
    /\ UNCHANGED <<args, robot_init_xs, robot_init_ys, obj_init_xs, obj_init_ys,
                   robot_init_quats, model, idx, env, task_description, image, images,
                   predicted_actions, predicted_terminated, done, truncated, info,
                   files, error, visited, ep_log, early_success, range_in,
                   range_out, instances, written>>

\* lines 64-67
InitStats ==
    /\ pc = "init_stats"
    /\ additional_episode_stats' = initialize_additional_episode_stats(args.env_name)
    /\ timestep' = 0
    /\ success' = "failure"
    /\ pc' = "loop"
    /\ UNCHANGED <<args, robot_init_xs, robot_init_ys, obj_init_xs, obj_init_ys,
                   robot_init_quats, model, idx, env, task_description, image, images,
                   predicted_actions, predicted_terminated, done, truncated, info,
                   files, error, visited, ep_log, early_success, range_in,
                   range_out, instances, written>>


LoopCondition_done == ~(predicted_terminated \/ truncated \/ done)
LoopCondition_untruncated == ~predicted_terminated

\* line 70: the condition of the while loop
LoopCondition == ~(predicted_terminated \/ truncated)

SuccessAfterStep_any(outcome, terminated, i) ==
    IF i.success THEN "success" ELSE outcome

\* lines 87-88: the outcome after a step that returned info i
SuccessAfterStep(outcome, terminated, i) ==
    IF terminated /\ i.success THEN "success" ELSE outcome

\* the predicate decides the outcome either way
SuccessAfterLoop_assign(outcome, truncation_success) ==
    IF truncation_success THEN "success" ELSE "failure"

\* lines 96-97: the outcome after the loop
SuccessAfterLoop(outcome, truncation_success) ==
    IF truncation_success THEN "success" ELSE outcome

\* the rotation goes first
concatenate_rot_first(action) ==
    action.rot_axangle \o action.world_vector \o action.gripper

\* lines 79-84: np.concatenate of the three components given to env.step
concatenate(action) ==
    action.world_vector \o action.rot_axangle \o action.gripper

\* lines 70-93: one iteration of the rollout loop.  The policy's terminate
\* component, and the environment's terminated flag and info, are theirs to
\* choose; truncated follows the step ceiling.
Step ==
    /\ pc = "loop"
    /\ LoopCondition
    /\ \E terminate_episode \in {0, 1}, i \in InfosOf(args.env_name), d \in BOOLEAN :
        LET cur_gripper_closedness == get_gripper_closedness(env)
            action == Action(Len(model.observed) + 1, terminate_episode)
        IN
        /\ model' = ModelStep(model, image, cur_gripper_closedness)
        /\ predicted_actions' = Append(predicted_actions,
               [t |-> timestep, terminate_episode |-> terminate_episode])
        /\ predicted_terminated' = (action.terminate_episode[1] > 0)
        /\ env' = EnvStep(env, concatenate(action))
        /\ done' = d
        /\ truncated' = Truncated(env')
        /\ info' = i
        /\ additional_episode_stats' =
               update_additional_episode_stats(args.env_name, additional_episode_stats, i)
        /\ success' = SuccessAfterStep(success, predicted_terminated', i)
        /\ image' = Obs(env')
        /\ images' = Append(images, image')
        /\ timestep' = timestep + 1
        /\ ep_log' = IF timestep = 0 THEN Append(ep_log, "model.step") ELSE ep_log
        /\ early_success' = (early_success \/ (i.success /\ ~predicted_terminated'))
    /\ UNCHANGED <<args, pc, robot_init_xs, robot_init_ys, obj_init_xs, obj_init_ys,
                   robot_init_quats, idx, task_description, files, error, visited,
                   range_in, range_out, instances, written>>

\* the predicate is asked about the statistics as they were created
TruncationCheck_initial_stats ==
    /\ pc = "loop"
    /\ ~LoopCondition
    /\ success' = SuccessAfterLoop(success,
           obtain_truncation_step_success(args.env_name,
               initialize_additional_episode_stats(args.env_name), info))
    /\ pc' = "save_video"
    /\ UNCHANGED <<args, robot_init_xs, robot_init_ys, obj_init_xs, obj_init_ys,
                   robot_init_quats, model, idx, env, task_description, image, images,
                   predicted_actions, predicted_terminated, done, truncated, info,
                   additional_episode_stats, timestep, files, error, visited,
                   ep_log, early_success, range_in, range_out, instances, written>>

\* lines 95-97: the loop has ended; success if the policy never terminated
TruncationCheck ==
    /\ pc = "loop"
    /\ ~LoopCondition
    /\ success' = SuccessAfterLoop(success,
           obtain_truncation_step_success(args.env_name, additional_episode_stats, info))
    /\ pc' = "save_video"
    /\ UNCHANGED <<args, robot_init_xs, robot_init_ys, obj_init_xs, obj_init_ys,
                   robot_init_quats, model, idx, env, task_description, image, images,
                   predicted_actions, predicted_terminated, done, truncated, info,
                   additional_episode_stats, timestep, files, error, visited,
                   ep_log, early_success, range_in, range_out, instances, written>>

\* the number of the call of main() is part of the name
cur_video_path_numbered ==
    video_path(args, cur, success, additional_episode_stats, FALSE)
        \o <<<<ToString(episode)>>>>

\* the video path of the running episode (tmp_exp is left at its default)
cur_video_path == video_path(args, cur, success, additional_episode_stats, FALSE)

\* What the text of the video path is made from (lines 100-117)
PathInputs ==
    [ckpt_path |-> args.ckpt_path, scene_name |-> args.scene_name,
     control_mode |-> get_robot_control_mode(args.robot),
     env_name |-> args.env_name,
     additional_env_build_kwargs |-> args.additional_env_build_kwargs,
     robot_init_xy |-> <<cur.robot_init_x, cur.robot_init_y>>,
     rgb_overlay_path |-> args.rgb_overlay_path,
     success |-> success,
     obj_init_xy |-> <<cur.obj_init_x, cur.obj_init_y>>,
     additional_episode_stats |-> additional_episode_stats,
     tmp_exp |-> FALSE]

\* lines 99-118
SaveVideo ==
    /\ pc = "save_video"
    /\ files' = WriteFile(files, cur_video_path, episode)
    /\ written' = Append(written,
           [inputs |-> PathInputs, path |-> cur_video_path,
            robot_init_quat |-> cur.robot_init_quat,
            steps |-> timestep])
    /\ pc' = "save_actions"
    /\ UNCHANGED <<args, robot_init_xs, robot_init_ys, obj_init_xs, obj_init_ys,
                   robot_init_quats, model, idx, env, task_description, image, images,
                   predicted_actions, predicted_terminated, done, truncated, info,
                   additional_episode_stats, timestep, success, error, visited,
                   ep_log, early_success, range_in, range_out, instances>>

\* lines 120-125, and the return to the loops
SaveActions ==
    /\ pc = "save_actions"
    /\ files' = WriteFile(files, action_path(cur_video_path), episode)
    /\ NoLocals
    /\ pc' = "sweep"
    /\ UNCHANGED <<args, robot_init_xs, robot_init_ys, obj_init_xs, obj_init_ys,
                   robot_init_quats, model, idx, error, visited, range_in, range_out, instances, written>>

\* An exception of the environment or of the policy, in a reset or in a step,
\* is caught nowhere: the script ends.
Fail ==
    /\ \/ pc \in {"env_reset", "model_reset"}
       \/ pc = "loop" /\ LoopCondition
    /\ Abort("RuntimeError")
    /\ UNCHANGED <<args, robot_init_xs, robot_init_ys, obj_init_xs, obj_init_ys,
                   robot_init_quats, model, idx, env, task_description, image, images,
                   predicted_actions, predicted_terminated, done, truncated, info,
                   additional_episode_stats, timestep, success, files, visited,
                   ep_log, early_success, range_in, range_out, instances, written>>

Next ==
    \/ ParseArgs
    \/ LoadPolicy
    \/ SweepNext
    \/ BuildEnv
    \/ ResetEnv
    \/ ResetModel
    \/ InitStats
    \/ Step
    \/ TruncationCheck
    \/ SaveVideo
    \/ SaveActions
    \/ Fail

Spec == Init /\ [][Next]_vars

\* ------------------------------------------------- parse_range_tuple alone
\* Range triples given to a lone call: min, max within MaxVal hundredths, num
\* from -1.0 to MaxNum in halves.
RangeTriples ==
    {<<mn, mx, 50 * h>> : mn \in (-MaxVal)..MaxVal, mx \in (-MaxVal)..MaxVal,
                          h \in (-2)..(2 * MaxNum)}

InitRange ==
    /\ args = BaseArgs
    /\ pc = "start"
    /\ robot_init_xs = <<>> /\ robot_init_ys = <<>>
    /\ obj_init_xs = <<>> /\ obj_init_ys = <<>>
    /\ robot_init_quats = <<>>
    /\ model = None
    /\ idx = NoIdx
    /\ env = None /\ task_description = None /\ image = None /\ images = <<>>
    /\ predicted_actions = <<>>
    /\ predicted_terminated = FALSE /\ done = FALSE /\ truncated = FALSE
    /\ info = None /\ additional_episode_stats = <<>>
    /\ timestep = 0 /\ success = "undefined"
    /\ files = {}
    /\ error = "none"
    /\ visited = <<>>
    /\ ep_log = <<>>
    /\ early_success = FALSE
    /\ range_in \in RangeTriples
    /\ range_out = None
    /\ instances = 0
    /\ written = <<>>

\* line 129, called on range_in
ParseRange ==
    /\ range_out = None
    /\ range_in # <<>>
    /\ range_out' = parse_range_tuple(range_in)
    /\ UNCHANGED <<args, pc, robot_init_xs, robot_init_ys, obj_init_xs, obj_init_ys,
                   robot_init_quats, model, idx, env, task_description, image, images,
                   predicted_actions, predicted_terminated, done, truncated, info,
                   additional_episode_stats, timestep, success, files, error,
                   visited, ep_log, early_success, range_in, instances, written>>

NextRange == ParseRange

SpecRange == InitRange /\ [][NextRange]_vars


\* =================================================================== claims
InMain == pc \in {"build_env", "env_reset", "model_reset", "init_stats", "loop",
                  "save_video", "save_actions"}
\* the rollout loop and the truncation check are over, the outcome is final
Decided == pc \in {"save_video", "save_actions"}
TruncationSuccess ==
    obtain_truncation_step_success(args.env_name, additional_episode_stats, info)

\* C1: once the loop and the truncation check are over, the outcome is
\* "success" exactly when the last step was the terminating one and its info
\* had success, or the truncation predicate holds of the final stats and the
\* last info; else it is "failure".
C1_OutcomeIff ==
    Decided =>
        /\ success \in {"success", "failure"}
        /\ success = "success" <=>
              \/ predicted_terminated /\ info.success
              \/ TruncationSuccess

\* C1 witness: an episode that saw info.success at a non-terminating step and
\* still ended in failure.
C1_Witness == Decided /\ early_success /\ success = "failure"

\* C2: the loop is left for the code after it only with the policy's
\* termination or the environment's truncation set; with neither set the next
\* thing main() does is another step, whatever `done` is.
C2_LoopExit ==
    [][pc = "loop" =>
          /\ pc' = "save_video" => (predicted_terminated \/ truncated)
          /\ (~(predicted_terminated \/ truncated) /\ pc' # "error") =>
                (pc' = "loop" /\ timestep' = timestep + 1)]_vars

\* C2 witness: at the loop head after a step that returned terminated = True,
\* with the loop going on.
C2_Witness ==
    /\ pc = "loop" /\ timestep >= 1 /\ done
    /\ ~predicted_terminated /\ ~truncated

\* C3: the loop never runs past the step ceiling and is always left; an episode
\* whose policy never signalled termination has run exactly max_episode_steps
\* steps, ends truncated, and is a success only when the truncation predicate
\* holds.
C3_Ceiling ==
    /\ pc = "loop" =>
          /\ timestep <= args.max_episode_steps
          /\ truncated <=> timestep = args.max_episode_steps
    /\ (Decided /\ ~predicted_terminated) =>
          /\ timestep = args.max_episode_steps
          /\ truncated
          /\ success = "success" => TruncationSuccess
C3_Truncation == []C3_Ceiling /\ ((pc = "loop") ~> (pc # "loop"))

\* C3 witness: a two-step episode that ran to the ceiling without the policy
\* terminating and was a success by the truncation predicate.
C3_Witness ==
    /\ Decided /\ ~predicted_terminated /\ truncated
    /\ timestep = 2 /\ success = "success"

\* The two-episode sweeps, under the script going on whenever it can: it is a
\* single thread with no blocking wait.
InitLive == Init /\ args \in EpisodeArgs
SpecLive == InitLive /\ [][Next]_vars /\ WF_vars(Next)


\* C4: in every episode the environment is reset first, with the episode's
\* initial condition, then the policy, once, and only then does the policy step; what the policy has been shown since its
\* reset is this episode's frames and nothing else, and before the reset of
\* an episode it has been shown nothing of that episode.
C4_ResetOrder ==
    /\ pc \in {"init_stats", "loop", "save_video", "save_actions"} =>
          /\ Len(ep_log) >= 2
          /\ SubSeq(ep_log, 1, 2) = <<"env.reset", "model.reset">>
          /\ Cardinality({k \in DOMAIN ep_log : ep_log[k] = "model.reset"}) = 1
          /\ Cardinality({k \in DOMAIN ep_log : ep_log[k] = "env.reset"}) = 1
          /\ env.options =
                [obj_init_options |->
                    [init_xy |-> <<visited[episode].obj_init_x,
                                   visited[episode].obj_init_y>>],
                 robot_init_options |->
                    [init_xy |-> <<visited[episode].robot_init_x,
                                   visited[episode].robot_init_y>>,
                     init_rot_quat |-> visited[episode].robot_init_quat]]
          /\ model.task = task_description
          /\ pc # "init_stats" => model.observed = SubSeq(images, 1, timestep)
    /\ pc \in {"build_env", "env_reset", "model_reset"} =>
          \A k \in DOMAIN model.observed : model.observed[k].ep < episode

\* C4 witness: the policy has stepped in the second episode of a sweep.
C4_Witness ==
    /\ episode >= 2 /\ pc = "loop" /\ timestep >= 1
    /\ ep_log = <<"env.reset", "model.reset", "model.step">>

\* ---- files
IsVideo(f) == f.path[Len(f.path)][Len(f.path[Len(f.path)])] = ".mp4"
IsActionImage(f) == f.path[Len(f.path)][Len(f.path[Len(f.path)])] = ".png"
AllDistinct(q) == \A i, j \in DOMAIN q : i # j => q[i] # q[j]

\* C5: after a sweep whose initial conditions differ pairwise there is one
\* video and one action image per episode: no episode wrote over another's.
C5_DistinctOutputs ==
    (pc = "done" /\ AllDistinct(visited)) =>
        /\ Cardinality({f \in files : IsVideo(f)}) = Len(visited)
        /\ Cardinality({f \in files : IsActionImage(f)}) = Len(visited)

\* ---- the grid a command line asks for
Count(a, k) == int(AxisTriple(a, k)[3])
Values(a, k) == parse_range_tuple(AxisTriple(a, k)).value
\* digit k of m written in the mixed radix Count(a, 1) .. Count(a, 7),
\* digit 7 the least significant
RECURSIVE Below(_, _)
Below(a, k) == IF k = 7 THEN 1 ELSE Count(a, k + 1) * Below(a, k + 1)
Digit(a, m, k) == (m \div Below(a, k)) % Count(a, k)
\* the initial condition at position n (from 1) of the nested order
GridPoint(a, n) ==
    [robot_init_x |-> Values(a, 1)[Digit(a, n - 1, 1) + 1],
     robot_init_y |-> Values(a, 2)[Digit(a, n - 1, 2) + 1],
     robot_init_quat |-> Quat(Values(a, 3)[Digit(a, n - 1, 3) + 1],
                              Values(a, 4)[Digit(a, n - 1, 4) + 1],
                              Values(a, 5)[Digit(a, n - 1, 5) + 1],
                              a.robot_init_rot_quat_center),
     obj_init_x |-> Values(a, 6)[Digit(a, n - 1, 6) + 1],
     obj_init_y |-> Values(a, 7)[Digit(a, n - 1, 7) + 1]]
SeqRange(q) == {q[k] : k \in DOMAIN q}

\* C6: a sweep that ends has called main() as many times as the seven counts
\* multiply to, once for every combination of one value per axis; the default
\* ranges make 25 grid points, with one robot x, one robot y and one
\* orientation.
C6_OncePerGridPoint ==
    pc = "done" =>
          /\ Len(visited) = Product([k \in Axes |-> Count(args, k)], 7)
          /\ Len(visited) > 0 =>
                \A x \in SeqRange(robot_init_xs), y \in SeqRange(robot_init_ys),
                   q \in SeqRange(robot_init_quats),
                   ox \in SeqRange(obj_init_xs), oy \in SeqRange(obj_init_ys) :
                    Cardinality({n \in DOMAIN visited : visited[n] =
                        [robot_init_x |-> x, robot_init_y |-> y, robot_init_quat |-> q,
                         obj_init_x |-> ox, obj_init_y |-> oy]}) = 1
          /\ Len(visited) > 0 =>
                /\ \A k \in {1, 2, 6, 7} : Len(Values(args, k)) = Count(args, k)
                /\ Len(robot_init_quats) = Count(args, 3) * Count(args, 4) * Count(args, 5)
          /\ Product([k \in Axes |-> Len(Values(DefaultArgs, k))], 7) = 25
          /\ \A k \in 1..5 : Len(Values(DefaultArgs, k)) = 1
          /\ Len(Values(DefaultArgs, 6)) = 5 /\ Len(Values(DefaultArgs, 7)) = 5

\* C6 witness: a finished sweep of four episodes.
C6_Witness == pc = "done" /\ Len(visited) = 4 /\ error = "none"

\* C7: at every call of main(), and when the sweep ends, the n-th call so far
\* got the n-th grid point of the nested order, robot x outermost, then robot
\* y, roll, pitch, yaw, object x, and object y innermost: a function of the
\* command line alone.
C7_NestedOrder ==
    pc \in {"build_env", "done"} =>
        \A n \in DOMAIN visited : visited[n] = GridPoint(args, n)

\* C7 witness: a finished sweep over two rolls and two pitches.
C7_Witness ==
    /\ pc = "done" /\ Len(visited) = 4
    /\ Count(args, 3) = 2 /\ Count(args, 4) = 2

\* ---- parse_range_tuple alone
Whole(f) == f % 100 = 0
StrictlyIncreasing(q) == \A i, j \in DOMAIN q : i < j => RatLt(q[i], q[j])
StrictlyDecreasing(q) == \A i, j \in DOMAIN q : i < j => RatLt(q[j], q[i])
AllEqual(q) == \A i, j \in DOMAIN q : q[i] = q[j]

\* C8 as stated: for a whole n >= 1 the result has n values, strictly
\* increasing (all equal when min = max), the first min and the last max.
C8_Original ==
    (range_out # None /\ Whole(range_in[3]) /\ int(range_in[3]) >= 1) =>
        /\ ~Raised(range_out)
        /\ Len(range_out.value) = int(range_in[3])
        /\ IF range_in[1] = range_in[2] THEN AllEqual(range_out.value)
           ELSE StrictlyIncreasing(range_out.value)
        /\ range_out.value[1] = FloatRat(range_in[1])
        /\ range_out.value[Len(range_out.value)] = FloatRat(range_in[2])

\* C8 amended: n values, the first min; for n >= 2 the last is max and the
\* values are strictly increasing when min < max, strictly decreasing when
\* min > max, all equal when min = max; for n = 1 the one value is min.
C8_Amended ==
    (range_out # None /\ Whole(range_in[3]) /\ int(range_in[3]) >= 1) =>
        /\ ~Raised(range_out)
        /\ Len(range_out.value) = int(range_in[3])
        /\ range_out.value[1] = FloatRat(range_in[1])
        /\ int(range_in[3]) >= 2 =>
              /\ range_out.value[Len(range_out.value)] = FloatRat(range_in[2])
              /\ range_in[1] < range_in[2] => StrictlyIncreasing(range_out.value)
              /\ range_in[1] > range_in[2] => StrictlyDecreasing(range_out.value)
              /\ range_in[1] = range_in[2] => AllEqual(range_out.value)

\* C8 witness: three values from a smaller min to a larger max.
C8_Witness ==
    /\ range_out # None /\ range_in[3] = 300 /\ range_in[1] < range_in[2]
    /\ Len(range_out.value) = 3

\* C9: a triple with count 1 raises nothing and expands to min alone, whatever
\* max is.
C9_SinglePoint ==
    (range_out # None /\ range_in[3] = 100) =>
        /\ ~Raised(range_out)
        /\ range_out.value = <<FloatRat(range_in[1])>>

\* C9 witness: count 1 with max different from min, expanded.
C9_Witness ==
    /\ range_out # None /\ range_in[3] = 100 /\ range_in[1] # range_in[2]
    /\ Len(range_out.value) = 1

\* C10: a command line with a count of zero or less on some axis ends in the
\* error state before anything else happens: no policy is loaded, no episode
\* is run, the sweep does not complete.
C10_NonPositiveRejected ==
    (\E k \in Axes : AxisTriple(args, k)[3] <= 0) =>
        /\ pc \in {"start", "error"}
        /\ Len(visited) = 0

\* C11: once the environment or the policy has raised inside episode k the
\* script is in its error state and stays there: nothing runs after it (no
\* retry, no later episode), and no file of episode k exists; the files of the
\* episodes before k are all that was written.
C11_NoFileOfFailed ==
    error = "RuntimeError" =>
        /\ pc = "error"
        /\ episode >= 1
        /\ \A f \in files : f.by < episode
C11_FailureAborts == []C11_NoFileOfFailed /\ [][pc # "error"]_vars

\* C11 witness: the second episode failed in its rollout loop, after a step,
\* with the files of the first episode written.
C11_Witness ==
    /\ pc = "error" /\ error = "RuntimeError"
    /\ episode = 2 /\ timestep >= 1
    /\ \E f \in files : IsVideo(f) /\ f.by = 1

\* C12: a policy outside the choices ends the run at the command line, with
\* no policy object constructed and no call of main(); otherwise one policy
\* object is constructed, before the first call of main(), of the family asked
\* for, and it is the one every call of main() gets.
C12_OnePolicy ==
    /\ args.policy_model \notin PolicyChoices =>
          /\ pc \in {"start", "error"}
          /\ instances = 0 /\ model = None /\ visited = <<>>
          /\ pc = "error" => error = "SystemExit"
    /\ pc \in {"start", "load_policy"} =>
          instances = 0 /\ model = None /\ visited = <<>>
    /\ (InMain \/ pc \in {"sweep", "done"} \/ visited # <<>>) =>
          /\ instances = 1 /\ model.id = 1
          /\ model.family = (IF args.policy_model = "rt1" THEN "rt1" ELSE "octo")

\* C12 witness: the second call of main() is in its rollout loop, with the
\* policy object constructed before the first.
C12_Witness ==
    /\ episode = 2 /\ pc = "loop" /\ timestep >= 1
    /\ instances = 1 /\ model.id = 1

\* C13: two rollouts of a run whose checkpoint path, scene, control mode,
\* environment name and kwargs, robot xy, overlay path, outcome, object xy,
\* final stats and tmp_exp agree named their videos alike, however many steps
\* each took, whatever its orientation and whatever ran before it.
C13_PathFromInputs ==
    \A i, j \in DOMAIN written :
        written[i].inputs = written[j].inputs => written[i].path = written[j].path

\* C13 witness: two rollouts with the same inputs to the path and the same
\* path, one of one step and one of two.
C13_Witness ==
    \E i, j \in DOMAIN written :
        /\ i < j
        /\ written[i].inputs = written[j].inputs
        /\ written[i].path = written[j].path
        /\ written[i].steps # written[j].steps

\* C14: at the head of the loop and after it, the policy and the environment
\* have each stepped timestep times in this episode; the k-th policy step was
\* given the frame before it (the reset observation first, then what the
\* environment step before it returned) and the closedness read from the
\* environment as it then was; every environment step returned the next frame;
\* and the environment last stepped under world_vector, rot_axangle, gripper,
\* in this order, of the action of the last policy step, the terminating one
\* included.
C14_StepOrder ==
    (pc = "loop" \/ Decided) =>
        /\ Len(model.observed) = timestep
        /\ Len(model.closedness) = timestep
        /\ env.elapsed_steps = timestep
        /\ \A k \in 1..timestep :
              /\ model.observed[k] = images[k]
              /\ images[k] = [ep |-> episode, t |-> k - 1]
              /\ model.closedness[k] = [closedness_at |-> k - 1]
              /\ predicted_actions[k].t = k - 1
        /\ images[1] = [ep |-> episode, t |-> 0]
        /\ images[timestep + 1] = image
        /\ image = [ep |-> episode, t |-> timestep]
        /\ timestep >= 1 =>
              /\ env.action = [k \in 1..7 |->
                    [c |-> <<"x", "y", "z", "rx", "ry", "rz", "gripper">>[k],
                     n |-> timestep]]
              /\ predicted_terminated =
                    (predicted_actions[timestep].terminate_episode > 0)

\* C14 witness: the policy ended the second episode at its second step, and the
\* environment stepped under that second action.
C14_Witness ==
    /\ Decided /\ episode = 2 /\ timestep = 2 /\ predicted_terminated
    /\ env.action[7] = [c |-> "gripper", n |-> 2]

\* C15: at the head of the loop and after it there is one frame more than
\* steps taken and one raw action per step, all of this episode; after the
\* reset and before the first step there is the reset frame alone and no
\* action; a policy that terminates at its first step leaves 2 frames and 1
\* action.
C15_Lengths ==
    /\ (pc = "loop" \/ Decided) =>
          /\ Len(images) = timestep + 1
          /\ Len(predicted_actions) = timestep
          /\ \A k \in DOMAIN images : images[k].ep = episode
          /\ (predicted_terminated /\ timestep = 1) =>
                (Len(images) = 2 /\ Len(predicted_actions) = 1)
    /\ (pc \in {"model_reset", "init_stats"} \/ (pc = "loop" /\ timestep = 0)) =>
          /\ images = <<[ep |-> episode, t |-> 0]>>
          /\ predicted_actions = <<>>

\* C15 witness: the policy terminated the second episode at its first step.
C15_Witness ==
    /\ Decided /\ episode = 2 /\ predicted_terminated /\ timestep = 1
    /\ Len(images) = 2 /\ Len(predicted_actions) = 1
    /\ args.max_episode_steps = 2

\* C16: the statistics do not exist before an episode creates them, after its
\* resets, as initialize_additional_episode_stats gives them; every step of
\* the loop steps the environment once and updates them once with the info
\* that step returned; the truncation check and the video name read them as
\* the last step left them.
C16_Created ==
    pc \in {"sweep", "build_env", "env_reset", "model_reset", "init_stats"} =>
        additional_episode_stats = <<>>
C16_StatsScope ==
    /\ []C16_Created
    /\ [][/\ (pc = "init_stats" /\ pc' = "loop") =>
                /\ ep_log = <<"env.reset", "model.reset">>
                /\ additional_episode_stats' =
                       initialize_additional_episode_stats(args.env_name)
          /\ (pc = "loop" /\ pc' = "loop") =>
                /\ env'.elapsed_steps = env.elapsed_steps + 1
                /\ additional_episode_stats' =
                       update_additional_episode_stats(args.env_name,
                           additional_episode_stats, info')
          /\ (pc = "loop" /\ pc' = "save_video") =>
                /\ additional_episode_stats' = additional_episode_stats
                /\ info' = info
                /\ success' = SuccessAfterLoop(success,
                       obtain_truncation_step_success(args.env_name,
                           additional_episode_stats, info))
          /\ (pc = "save_video" /\ pc' = "save_actions") =>
                /\ additional_episode_stats' = additional_episode_stats
                /\ \E f \in files' :
                      /\ f.by = episode
                      /\ f.path[7] = video_name(success, cur.obj_init_x,
                             cur.obj_init_y, additional_episode_stats)
         ]_vars

\* C16 witness: the second episode is over with moved_correct_obj never seen
\* in its two steps, after a first episode that had seen it.
C16_Witness ==
    /\ Decided /\ episode = 2 /\ timestep = 2
    /\ written[1].inputs.additional_episode_stats = <<<<"moved_correct_obj", TRUE>>>>
    /\ additional_episode_stats = <<<<"moved_correct_obj", FALSE>>>>

\* C17: an episode enters its loop with the outcome "failure"; an outcome that
\* is "success" stays "success" for the rest of the episode, through the
\* truncation check too; and the video is named with the outcome held after
\* the truncation check.
C17_Monotonic ==
    [][/\ (pc = "init_stats" /\ pc' = "loop") => success' = "failure"
       /\ (success = "success" /\ pc' \in {"loop", "save_video", "save_actions", "error"}) =>
             success' = "success"
       /\ (pc = "loop" /\ pc' \in {"loop", "save_video"}) =>
             success' \in {"failure", "success"}
       /\ (pc = "save_video" /\ pc' = "save_actions") =>
             /\ success' = success
             /\ \E f \in files' :
                   f.by = episode /\ IsVideo(f) /\ f.path[7][1] = success
      ]_vars

\* C17 witness: a success decided at the terminating step, kept by a
\* truncation check whose predicate was false.
C17_Witness ==
    /\ Decided /\ success = "success" /\ predicted_terminated
    /\ args.env_name = "MoveNearGoogleInScene-v0"
    /\ ~TruncationSuccess

\* C18: an episode reaches its loop with both flags false and no info yet, so
\* the loop condition holds before the first step; when the loop is over, the
\* policy and the environment have stepped at least once in this episode and
\* the info and the statistics the truncation check reads are those of its
\* last step.
C18_AtLeastOneStep ==
    /\ (pc = "loop" /\ timestep = 0) =>
          /\ ~predicted_terminated /\ ~truncated /\ LoopCondition
          /\ info = None
    /\ ((pc = "loop" /\ ~LoopCondition) \/ Decided) =>
          /\ timestep >= 1
          /\ Len(model.observed) >= 1 /\ env.elapsed_steps >= 1
          /\ info \in InfosOf(args.env_name)
          /\ \A k \in DOMAIN additional_episode_stats :
                info[additional_episode_stats[k][1]] => additional_episode_stats[k][2]

\* C18 witness: the second episode of a sweep was truncated at its first step,
\* and the truncation check is about to read the info of that step.
C18_Witness ==
    /\ pc = "loop" /\ ~LoopCondition /\ episode = 2 /\ timestep = 1
    /\ truncated /\ ~predicted_terminated
    /\ info \in InfosOf(args.env_name) /\ info.success

\* C19: a command line without extra build kwargs never ends in a TypeError,
\* every call of main() it makes gets as far as writing its files, and the
\* environment segment of every video path is the environment name alone;
\* with kwargs, the segment is the name followed by one _key_value per kwarg
\* in insertion order.
C19_KwargsOptional ==
    /\ args.additional_env_build_kwargs = None =>
          /\ error # TypeError
          /\ \A f \in files : IsVideo(f) => f.path[5] = <<args.env_name>>
          /\ pc = "done" => Len(written) = Len(visited)
    /\ args.additional_env_build_kwargs # None =>
          \A f \in files : IsVideo(f) =>
              f.path[5] = <<args.env_name>>
                  \o KwargsSuffix(args.additional_env_build_kwargs.items)

====
